---- MODULE Spec2Model ----
(***************************************************************************)
(* Model of script_generator.py: command-line validation, the fan-out of   *)
(* N generate_single_image jobs over a multiprocessing.Pool with pool.map, *)
(* and the per-job Document construct / create / save / save_ground_truth  *)
(* sequence with its except handler.                                       *)
(***************************************************************************)
EXTENDS Integers, Sequences, FiniteSets, TLC

VARIABLES mainpc, argv, cpu_count, args, usage, DEFAULT_DIR, pool, chunks, taskq,
          worker, mapResult, job, docs, files, faults

vars == <<mainpc, argv, cpu_count, args, usage, DEFAULT_DIR, pool, chunks, taskq,
          worker, mapResult, job, docs, files, faults>>

(* ------------------------------ bounds --------------------------------- *)

\* largest output_count typed on the command line
MaxCount == 2
\* largest output_count typed together with explicit levels
MaxLevelledCount == 1
\* largest level typed on the command line (one past the valid range)
MaxLevelArg == 6
\* magnitude of the most negative integer typed on the command line
MaxNegArg == 1
\* largest number of worker processes (os.cpu_count() of the machine)
MaxProcs == 2
\* number of distinct values the Document's seed source can deliver
NumSeeds == 2
\* largest number of calls that raise in one run
MaxFaults == 1

(* ------------------------- program constants --------------------------- *)

DEFAULT_COUNT == 5
DEFAULT_LEVEL == 1
MIN_LEVEL == 1
MAX_LEVEL == 5
MIN_COUNT == 1
DIR_LO == 10000
DIR_HI == 100000

None == "None"
\* a local name that has not been assigned
Unbound == <<0, 0>>

NoPath == <<>>

BlankComposite == [text |-> <<>>, stain |-> 0, noise |-> 0]

BlankMask == [text |-> <<>>]

NoUsage == <<None, None>>

(* ---------------------- text of integers and int() --------------------- *)

DigitChars == <<"0", "1", "2", "3", "4", "5", "6", "7", "8", "9">>

RECURSIVE Digits(_)
Digits(n) == IF n < 10 THEN <<DigitChars[n + 1]>>
             ELSE Digits(n \div 10) \o <<DigitChars[(n % 10) + 1]>>

\* the decimal text a user types for the integer v
Str(v) == IF v < 0 THEN <<"-">> \o Digits(-v) ELSE Digits(v)

IsDigit(c) == \E i \in 1..10 : DigitChars[i] = c

DigitValue(c) == (CHOOSE i \in 1..10 : DigitChars[i] = c) - 1

RECURSIVE DigitsValue(_)
DigitsValue(s) == IF s = <<>> THEN 0
                  ELSE 10 * DigitsValue(SubSeq(s, 1, Len(s) - 1))
                       + DigitValue(s[Len(s)])

\* Python int(text): an optional sign and at least one digit, else ValueError
int(s) ==
  LET neg  == Len(s) > 0 /\ s[1] = "-"
      pos  == Len(s) > 0 /\ s[1] = "+"
      body == IF neg \/ pos THEN Tail(s) ELSE s
  IN IF body = <<>> \/ \E i \in 1..Len(body) : ~IsDigit(body[i])
     THEN [ok |-> FALSE, error |-> "ValueError", value |-> 0]
     ELSE [ok |-> TRUE, error |-> None,
           value |-> IF neg THEN -DigitsValue(body) ELSE DigitsValue(body)]

(* --------------------------- type functions ---------------------------- *)

check_output_count_any(value) ==
  LET v == int(value)
  IN IF ~v.ok THEN v
     ELSE IF v.value < 0
          THEN [ok |-> FALSE, error |-> "ArgumentTypeError:count", value |-> 0]
          ELSE v

check_output_count(value) ==
  LET v == int(value)
  IN IF ~v.ok THEN v
     ELSE IF v.value < MIN_COUNT
          THEN [ok |-> FALSE, error |-> "ArgumentTypeError:count", value |-> 0]
          ELSE v

check_level_no_upper(value) ==
  LET v == int(value)
  IN IF ~v.ok THEN v
     ELSE IF v.value < MIN_LEVEL
          THEN [ok |-> FALSE, error |-> "ArgumentTypeError:level", value |-> 0]
          ELSE v

check_level(value) ==
  LET v == int(value)
  IN IF ~v.ok THEN v
     ELSE IF v.value < MIN_LEVEL \/ v.value > MAX_LEVEL
          THEN [ok |-> FALSE, error |-> "ArgumentTypeError:level", value |-> 0]
          ELSE v

(* ------------------------------ argparse ------------------------------- *)

\* a positional with nargs='?': the type function is applied to a token that
\* is present; an absent one takes the (non-string) default unchecked
Default(value) == [ok |-> TRUE, error |-> None, value |-> value]

NoArgs == [output_count |-> 0, stain_level |-> 0, text_noise_level |-> 0,
           output_dir |-> 0]

\* parser.parse_args(): positionals are converted in order, the first failure
\* ends the run through parser.error
parse_args(av, dir) ==
  LET n == IF Len(av) >= 1 THEN check_output_count(av[1])
           ELSE Default(DEFAULT_COUNT)
      s == IF Len(av) >= 2 THEN check_level(av[2])
           ELSE Default(DEFAULT_LEVEL)
      t == IF Len(av) >= 3 THEN check_level(av[3])
           ELSE Default(DEFAULT_LEVEL)
  IN IF ~n.ok THEN [ok |-> FALSE, dest |-> "output_count", error |-> n.error,
                    ns |-> NoArgs]
     ELSE IF ~s.ok THEN [ok |-> FALSE, dest |-> "stain_level",
                         error |-> s.error, ns |-> NoArgs]
     ELSE IF ~t.ok THEN [ok |-> FALSE, dest |-> "text_noise_level",
                         error |-> t.error, ns |-> NoArgs]
     ELSE [ok |-> TRUE, dest |-> None, error |-> None,
           ns |-> [output_count |-> n.value, stain_level |-> s.value,
                   text_noise_level |-> t.value, output_dir |-> dir]]

\* what a user may type for one positional
CountTokens(max) == {Str(v) : v \in (-MaxNegArg)..max} \cup {<<"x">>}

LevelTokens == {Str(v) : v \in (-MaxNegArg)..MaxLevelArg} \cup {<<"x">>}

\* command lines that give the count only
CountArgvs == {<<c>> : c \in CountTokens(MaxCount)}

\* command lines that give one or both levels
LevelArgvs ==
  {<<c, s>> : c \in CountTokens(MaxLevelledCount), s \in LevelTokens}
  \cup {<<c, s, t>> : c \in CountTokens(MaxLevelledCount), s \in LevelTokens,
                      t \in LevelTokens}

(* ------------------------------ helpers -------------------------------- *)

Put(f, k, v) == [x \in DOMAIN f \cup {k} |-> IF x = k THEN v ELSE f[x]]

Seeds == 1..NumSeeds

Jobs == DOMAIN job

Workers == 1..pool

(* ------------------------------ Document ------------------------------- *)

\* Document(stain_level, text_noise_level): the constructor receives the two
\* levels only and obtains its seed itself
NewDocument(j, seed, stain, noise) ==
  [creator |-> j, random_seed |-> seed, stain_level |-> stain,
   text_noise_level |-> noise, composite |-> BlankComposite,
   mask |-> BlankMask, saved |-> FALSE, accessed |-> {j}]

\* create that also draws from the random module of the worker process
create_global(d, g) ==
  [d EXCEPT !.composite = [text |-> <<d.random_seed, g>>,
                           stain |-> d.stain_level,
                           noise |-> d.text_noise_level],
            !.mask = [text |-> <<d.random_seed, g>>]]

\* create(): layout and text from the seed alone into both rasters, stains
\* and text noise onto the composite only; g is the worker process whose
\* global random module is in scope, which create does not consult
create(d, g) ==
  [d EXCEPT !.composite = [text |-> <<d.random_seed>>,
                           stain |-> d.stain_level,
                           noise |-> d.text_noise_level],
            !.mask = [text |-> <<d.random_seed>>]]

\* file names: one stem per seed, image and mask told apart by sub-directory
ImagePath(d, base_dir) == <<base_dir, "image", Str(d.random_seed)>>

MaskPath(d, base_dir) == <<base_dir, "ground_truth", Str(d.random_seed)>>

(* -------------------------------- Init --------------------------------- *)

NoResult == [success |-> TRUE, value |-> None, number_left |-> 0]

\* what the process is started with: the command line and the number of
\* CPUs of the machine. The bare command line (all defaults) on a single
\* CPU, and an explicit count on machines of up to MaxProcs CPUs
BatchEnvs ==
  {[argv |-> <<>>, cpus |-> 1]}
  \cup {[argv |-> a, cpus |-> p] : a \in CountArgvs, p \in 1..MaxProcs}

LevelEnvs == {[argv |-> a, cpus |-> p] : a \in LevelArgvs, p \in 1..MaxProcs}

\* the state after the module was imported: line 24 has drawn the suffix of
\* DEFAULT_DIR, nothing else has run
InitFrom(envs) ==
  /\ mainpc = "start"
  /\ \E e \in envs : argv = e.argv /\ cpu_count = e.cpus
  /\ args = NoArgs
  /\ usage = NoUsage
  /\ DEFAULT_DIR \in {DIR_LO, DIR_HI}
  /\ pool = 0
  /\ chunks = <<>>
  /\ taskq = 1
  /\ worker = <<>>
  /\ mapResult = NoResult
  /\ job = <<>>
  /\ docs = <<>>
  /\ files = <<>>
  /\ faults = 0

Init == InitFrom(BatchEnvs)

InitLevels == InitFrom(LevelEnvs)

(* -------------------------------- main --------------------------------- *)

\* lines 88-102: build the parser, parse sys.argv, print the banner
ParseArgs ==
  /\ mainpc = "start"
  /\ LET r == parse_args(argv, DEFAULT_DIR)
     IN /\ args' = r.ns
        /\ usage' = IF r.ok THEN NoUsage ELSE <<r.dest, r.error>>
        /\ mainpc' = IF r.ok THEN "parsed" ELSE "usage_error"
  /\ UNCHANGED <<argv, cpu_count, DEFAULT_DIR, pool, chunks, taskq, worker,
                 mapResult, job, docs, files, faults>>

\* line 104: Pool() starts os.cpu_count() worker processes
CreatePool ==
  /\ mainpc = "parsed"
  /\ pool' = cpu_count
  /\ worker' = [w \in 1..cpu_count |-> [chunk |-> 0, idx |-> 0]]
  /\ mainpc' = "pool"
  /\ UNCHANGED <<argv, cpu_count, args, usage, DEFAULT_DIR, chunks, taskq, mapResult,
                 job, docs, files, faults>>

\* Pool._map_async: chunksize = ceil(len / (4 * processes))
ChunkSize(n, p) ==
  IF n = 0 THEN 0
  ELSE (n \div (p * 4))
       + (IF n % (p * 4) # 0 THEN 1 ELSE 0)

NumChunks(n, c) ==
  IF c <= 0 THEN 0 ELSE (n \div c) + (IF n % c # 0 THEN 1 ELSE 0)

\* Pool._get_tasks: consecutive slices of the argument list
GetTasks(n, c) ==
  [k \in 1..NumChunks(n, c) |->
     [i \in 1..(IF k * c <= n THEN c ELSE n - (k - 1) * c) |->
        (k - 1) * c + i - 1]]

NewJob == [pc |-> "queued", stmt |-> 0, document |-> Unbound, made |-> 0,
           cause |-> None, raised |-> None, printed |-> 0,
           image |-> NoPath, mask |-> NoPath, iter |-> 0, fn_args |-> NoArgs]

\* lines 106-108: one argument dict per index of range(output_count), all
\* holding the same args namespace, handed to pool.map
MapDispatch ==
  /\ mainpc = "pool"
  /\ LET n == args.output_count
         c == ChunkSize(n, pool)
     IN /\ job' = [x \in 0..(n - 1) |->
                     [NewJob EXCEPT !.iter = x, !.fn_args = args]]
        /\ chunks' = GetTasks(n, c)
        /\ mapResult' = [success |-> TRUE, value |-> None,
                         number_left |-> NumChunks(n, c)]
  /\ taskq' = 1
  /\ mainpc' = "mapping"
  /\ UNCHANGED <<argv, cpu_count, args, usage, DEFAULT_DIR, pool, worker, docs,
                 files, faults>>

\* MapResult.get(): ready only once every chunk has reported; re-raises the
\* first stored exception, so main ends with an exception
MapGet ==
  /\ mainpc = "mapping"
  /\ mapResult.number_left = 0
  /\ mainpc' = IF mapResult.success THEN "returned" ELSE "raised"
  /\ UNCHANGED <<argv, cpu_count, args, usage, DEFAULT_DIR, pool, chunks, taskq,
                 worker, mapResult, job, docs, files, faults>>

(* ------------------------------- workers ------------------------------- *)

\* the job worker w is executing
Current(w) == chunks[worker[w].chunk][worker[w].idx]

\* worker(): an idle worker takes the next chunk from the task queue and
\* mapstar enters generate_single_image for its first element (line 65)
TakeTask(w) ==
  /\ mainpc = "mapping"
  /\ worker[w].chunk = 0
  /\ taskq <= Len(chunks)
  /\ worker' = [worker EXCEPT ![w] = [chunk |-> taskq, idx |-> 1]]
  /\ job' = [job EXCEPT ![chunks[taskq][1]].pc = "try",
                        ![chunks[taskq][1]].stmt = 1]
  /\ taskq' = taskq + 1
  /\ UNCHANGED <<mainpc, argv, cpu_count, args, usage, DEFAULT_DIR, pool, chunks,
                 mapResult, docs, files, faults>>

\* mapstar after one call returned: the next element of the chunk, or the
\* chunk's result (True, ...) to MapResult._set
Advance(w, j, jb) ==
  LET k == worker[w].chunk
      i == worker[w].idx
  IN IF i < Len(chunks[k])
     THEN /\ worker' = [worker EXCEPT ![w].idx = i + 1]
          /\ job' = [jb EXCEPT ![j].pc = "returned",
                               ![chunks[k][i + 1]].pc = "try",
                               ![chunks[k][i + 1]].stmt = 1]
          /\ UNCHANGED mapResult
     ELSE /\ worker' = [worker EXCEPT ![w] = [chunk |-> 0, idx |-> 0]]
          /\ job' = [jb EXCEPT ![j].pc = "returned"]
          /\ mapResult' = [mapResult EXCEPT !.number_left = @ - 1]

\* mapstar after one call raised: list(map(...)) is abandoned, the elements
\* of the chunk after j are never called, and the chunk reports (False, exc);
\* MapResult._set keeps the first exception only
Abandon(w, j, jb, exc) ==
  LET k == worker[w].chunk
      i == worker[w].idx
      rest == {chunks[k][x] : x \in (i + 1)..Len(chunks[k])}
  IN /\ worker' = [worker EXCEPT ![w] = [chunk |-> 0, idx |-> 0]]
     /\ job' = [x \in DOMAIN jb |->
                  IF x = j THEN [jb[x] EXCEPT !.pc = "raised", !.raised = exc]
                  ELSE IF x \in rest THEN [jb[x] EXCEPT !.pc = "never_run"]
                  ELSE jb[x]]
     /\ mapResult' = [success |-> FALSE,
                      value |-> IF mapResult.success THEN exc
                                ELSE mapResult.value,
                      number_left |-> mapResult.number_left - 1]

(* ------------------------ generate_single_image ------------------------ *)

\* a try block that saves before it creates
TryBlock_save_first == <<"Document", "save", "create", "save_ground_truth">>

\* lines 69-74: the statements of the try block, in order
TryBlock == <<"Document", "create", "save", "save_ground_truth">>

\* job j, running on worker w, is about to execute the statement `name`
At(w, j, name) ==
  /\ mainpc = "mapping"
  /\ worker[w].chunk # 0
  /\ Current(w) = j
  /\ job[j].pc = "try"
  /\ TryBlock[job[j].stmt] = name

\* the statement completed: on to the next one, or the function returns
Proceed(w, j, jb) ==
  IF jb[j].stmt < Len(TryBlock)
  THEN /\ job' = [jb EXCEPT ![j].stmt = @ + 1]
       /\ UNCHANGED <<worker, mapResult>>
  ELSE Advance(w, j, jb)

\* the call raises instead of returning: control enters the except clause
Raise(j, exc) ==
  /\ faults < MaxFaults
  /\ faults' = faults + 1
  /\ job' = [job EXCEPT ![j].pc = "except", ![j].cause = exc]

\* the document the local name `document` of job j's frame refers to
document(w, j) == job[j].document

Touch(d, j) == [docs EXCEPT ![d].accessed = @ \cup {j}]

\* lines 69-70
Construct(w, j) ==
  /\ At(w, j, "Document")
  /\ \/ /\ \E seed \in Seeds :
             docs' = Put(docs, <<j, job[j].made + 1>>,
                         NewDocument(j, seed, job[j].fn_args.stain_level,
                                     job[j].fn_args.text_noise_level))
          /\ Proceed(w, j, [job EXCEPT ![j].document = <<j, job[j].made + 1>>,
                                       ![j].made = @ + 1])
          /\ UNCHANGED faults
       \/ /\ Raise(j, "ConstructError")
          /\ UNCHANGED <<docs, worker, mapResult>>
  /\ UNCHANGED <<mainpc, argv, cpu_count, args, usage, DEFAULT_DIR, pool, chunks,
                 taskq, files>>

\* line 72
Create(w, j) ==
  /\ At(w, j, "create")
  /\ LET d == document(w, j)
     IN \/ /\ docs' = [Touch(d, j) EXCEPT ![d] = create(@, w)]
           /\ Proceed(w, j, job)
           /\ UNCHANGED faults
        \/ /\ Raise(j, "SynthesisError")
           /\ docs' = Touch(d, j)
           /\ UNCHANGED <<worker, mapResult>>
  /\ UNCHANGED <<mainpc, argv, cpu_count, args, usage, DEFAULT_DIR, pool, chunks,
                 taskq, files>>

\* line 73
Save(w, j) ==
  /\ At(w, j, "save")
  /\ LET d    == document(w, j)
         path == ImagePath(docs[d], job[j].fn_args.output_dir)
     IN \/ /\ files' = Put(files, path, docs[d].composite)
           /\ docs' = [Touch(d, j) EXCEPT ![d].saved = TRUE]
           /\ Proceed(w, j, [job EXCEPT ![j].image = path])
           /\ UNCHANGED faults
        \/ /\ Raise(j, "PersistenceError")
           /\ docs' = Touch(d, j)
           /\ UNCHANGED <<files, worker, mapResult>>
  /\ UNCHANGED <<mainpc, argv, cpu_count, args, usage, DEFAULT_DIR, pool, chunks,
                 taskq>>

\* line 74
SaveGroundTruth(w, j) ==
  /\ At(w, j, "save_ground_truth")
  /\ LET d    == document(w, j)
         path == MaskPath(docs[d], job[j].fn_args.output_dir)
     IN \/ /\ files' = Put(files, path, docs[d].mask)
           /\ docs' = Touch(d, j)
           /\ Proceed(w, j, [job EXCEPT ![j].mask = path])
           /\ UNCHANGED faults
        \/ /\ Raise(j, "PersistenceError")
           /\ docs' = Touch(d, j)
           /\ UNCHANGED <<files, worker, mapResult>>
  /\ UNCHANGED <<mainpc, argv, cpu_count, args, usage, DEFAULT_DIR, pool, chunks,
                 taskq>>

\* an except clause that prints the seed and does not re-raise
except_clause_swallow(w, j) ==
  LET d == document(w, j)
  IN IF d = Unbound
     THEN [raises |-> TRUE, exc |-> "UnboundLocalError", printed |-> 0,
           read |-> Unbound]
     ELSE [raises |-> FALSE, exc |-> None, printed |-> docs[d].random_seed,
           read |-> d]

\* lines 76-78: print(document.random_seed) and re-raise; the read of an
\* unassigned `document` raises UnboundLocalError out of the clause
except_clause(w, j) ==
  LET d == document(w, j)
  IN IF d = Unbound
     THEN [raises |-> TRUE, exc |-> "UnboundLocalError", printed |-> 0,
           read |-> Unbound]
     ELSE [raises |-> TRUE, exc |-> job[j].cause,
           printed |-> docs[d].random_seed, read |-> d]

Handler(w, j) ==
  /\ mainpc = "mapping"
  /\ worker[w].chunk # 0
  /\ Current(w) = j
  /\ job[j].pc = "except"
  /\ LET h  == except_clause(w, j)
         jb == [job EXCEPT ![j].printed = h.printed]
     IN /\ docs' = IF h.read = Unbound THEN docs ELSE Touch(h.read, j)
        /\ IF h.raises THEN Abandon(w, j, jb, h.exc) ELSE Advance(w, j, jb)
  /\ UNCHANGED <<mainpc, argv, cpu_count, args, usage, DEFAULT_DIR, pool, chunks,
                 taskq, files, faults>>

(* ----------------------------- specification --------------------------- *)

Next ==
  \/ ParseArgs
  \/ CreatePool
  \/ MapDispatch
  \/ MapGet
  \/ \E w \in Workers : TakeTask(w)
  \/ \E w \in Workers, j \in Jobs : Construct(w, j)
  \/ \E w \in Workers, j \in Jobs : Create(w, j)
  \/ \E w \in Workers, j \in Jobs : Save(w, j)
  \/ \E w \in Workers, j \in Jobs : SaveGroundTruth(w, j)
  \/ \E w \in Workers, j \in Jobs : Handler(w, j)

Spec == Init /\ [][Next]_vars

SpecLevels == InitLevels /\ [][Next]_vars

(* ------------------------------ properties ----------------------------- *)

MainEnded == mainpc \in {"returned", "raised"}

\* a call of job j's try block raised
Failed(j) == job[j].cause # None

\* job j wrote both files and they hold its Document's rasters
Persisted(j) ==
  /\ job[j].document # Unbound
  /\ job[j].image \in DOMAIN files
  /\ job[j].mask \in DOMAIN files
  /\ files[job[j].image] = docs[job[j].document].composite
  /\ files[job[j].mask] = docs[job[j].document].mask

ImageFiles == {p \in DOMAIN files : p[2] = "image"}

MaskFiles == {p \in DOMAIN files : p[2] = "ground_truth"}

\* C1: when the batch has ended, every job of the batch was started and ran
\* to its own terminal outcome (returned or raised), whichever jobs failed.
C1_EveryJobRuns ==
  MainEnded => \A j \in Jobs : job[j].pc \in {"returned", "raised"}

\* C2: a dispatched batch ends with an exception out of main if and only if
\* at least one of its jobs failed, and then the image and the mask of every
\* job that succeeded are on disk with that job's rasters.
C2_BatchFailsIffJobFailed ==
  MainEnded =>
    /\ (mainpc = "raised") <=> (\E j \in Jobs : Failed(j))
    /\ (\E j \in Jobs : Failed(j)) =>
         \A j \in Jobs : job[j].pc = "returned" => Persisted(j)

C2_Witness ==
  /\ mainpc = "raised"
  /\ \E j \in Jobs : Failed(j)
  /\ \E j \in Jobs : job[j].pc = "returned" /\ Persisted(j)

\* C3: in every terminal state of a job its image file and its mask file are
\* both written or both absent.
C3_PairWrittenTogether ==
  \A j \in Jobs :
    job[j].pc \in {"returned", "raised", "never_run"} =>
      ((job[j].image # NoPath) <=> (job[j].mask # NoPath))

\* the level typed as the k-th positional, once the positionals before it
\* were accepted: an integer v in 1..5 is returned as v, any other integer
\* ends the run with the level error
LevelChecked(k, dest, before, parsed) ==
  (mainpc # "start" /\ Len(argv) >= k /\ usage[1] \notin before) =>
    \A v \in (-MaxNegArg)..MaxLevelArg :
      argv[k] = Str(v) =>
        IF 1 <= v /\ v <= 5
        THEN usage[1] # dest /\ (usage = NoUsage => parsed = v)
        ELSE /\ mainpc = "usage_error"
             /\ usage = <<dest, "ArgumentTypeError:level">>

\* C4: check_level returns an integer v with 1 <= v <= 5 unchanged and fails
\* with the level error for every other integer, for stain_level and for
\* text_noise_level alike, and no Document is ever built with a level
\* outside 1..5.
C4_LevelsValidated ==
  /\ LevelChecked(2, "stain_level", {"output_count"}, args.stain_level)
  /\ LevelChecked(3, "text_noise_level", {"output_count", "stain_level"},
                  args.text_noise_level)
  /\ \A d \in DOMAIN docs :
       /\ docs[d].stain_level \in 1..5
       /\ docs[d].text_noise_level \in 1..5

C4_Witness ==
  /\ mainpc = "usage_error"
  /\ Len(argv) = 3
  /\ argv[2] = Str(5)
  /\ argv[3] = Str(6)
  /\ usage = <<"text_noise_level", "ArgumentTypeError:level">>

\* C5: an output_count below 1 ends the run with the count error with no
\* pool, no job, no Document and no file; and a pool exists only after all
\* three parameters were validated.
C5_CountRejectedBeforeDispatch ==
  /\ (mainpc # "start" /\ Len(argv) >= 1) =>
       \A v \in (-MaxNegArg)..MaxCount :
         (argv[1] = Str(v) /\ v < 1) =>
           /\ mainpc = "usage_error"
           /\ usage = <<"output_count", "ArgumentTypeError:count">>
           /\ pool = 0
           /\ job = <<>>
           /\ docs = <<>>
           /\ files = <<>>
  /\ (pool # 0 \/ job # <<>>) =>
       /\ usage = NoUsage
       /\ args.output_count >= 1
       /\ args.stain_level \in 1..5
       /\ args.text_noise_level \in 1..5

C5_Witness ==
  /\ mainpc = "usage_error"
  /\ argv = <<Str(0)>>
  /\ usage = <<"output_count", "ArgumentTypeError:count">>

C8_SeedReportedErrorKept ==
  \A j \in Jobs :
    job[j].pc = "raised" =>
      /\ job[j].raised = job[j].cause
      /\ job[j].document # Unbound =>
           job[j].printed = docs[job[j].document].random_seed

\* C9: a job constructs at most one Document (exactly one once it returned),
\* the Document its calls go to is the one it constructed, no Document is
\* touched by a job other than its creator, and the rasters and the seed of
\* a Document do not change once it has been saved.
C9_DocumentOwned ==
  /\ [](\A j \in Jobs :
          /\ job[j].made <= 1
          /\ job[j].pc = "returned" => job[j].made = 1
          /\ job[j].document # Unbound =>
               /\ job[j].document \in DOMAIN docs
               /\ docs[job[j].document].creator = j)
  /\ [](\A d \in DOMAIN docs : docs[d].accessed = {docs[d].creator})
  /\ [][\A d \in DOMAIN docs :
          docs[d].saved =>
            /\ d \in DOMAIN docs'
            /\ docs'[d].composite = docs[d].composite
            /\ docs'[d].mask = docs[d].mask
            /\ docs'[d].random_seed = docs[d].random_seed]_vars

C9_Witness ==
  \E i, j \in Jobs :
    /\ i # j
    /\ job[i].pc = "try" /\ job[j].pc = "try"
    /\ job[i].document # Unbound /\ job[j].document # Unbound
    /\ docs[job[i].document].saved
    /\ docs[job[j].document].composite # BlankComposite

====
